---- MODULE Spec2Model ----
(***************************************************************************)
(* A model of dagcategory/models.py: the materialized-path category tree.  *)
(*                                                                         *)
(* A string is a sequence of one-character strings, so that joining,      *)
(* splitting, prefix tests, counting of the delimiter and the ordering of  *)
(* paths are computed character by character, as the code and the storage  *)
(* compute them.                                                           *)
(*                                                                         *)
(* The table of categories is `store`: primary key -> row.  A save() is a *)
(* stack of frames, one per nested save() call, advanced one statement     *)
(* group at a time (the walk of lines 163-171, the write of line 172, the  *)
(* children query of line 174, one turn of the loop of lines 174-175).     *)
(* The instance handed to a top-level save() and the parent instance       *)
(* assigned to it are loaded from the table when the save starts; every    *)
(* other `.parent` is fetched from the table when the walk dereferences it.*)
(*                                                                         *)
(* Specifications: Spec, the saves of one caller run one after the other; *)
(* FairSpec, the same with a save that runs on once started; ReadSpec,     *)
(* these saves with the read operations between them; ConcSpec, one save   *)
(* each of two callers, interleaved statement group by statement group.    *)
(***************************************************************************)
EXTENDS Integers, Sequences, FiniteSets, TLC

\* ------------------------------------------------------------ bounds
MaxNodes  == 3      \* primary keys 1..MaxNodes
MaxFaults == 1      \* storage failures injected into writes
MaxSegs   == 3      \* segments of a locator handed to select_from_url
MaxLimit  == 2      \* largest non-negative limit handed to select_from_url
MaxBelow  == 2      \* the limits handed to select_from_url start at -MaxBelow
MaxRaceNodes == 2   \* rows of the table when two callers start to save

Procs    == {1, 2}  \* callers that may run a save
SeqProcs == {1}     \* the one caller of the sequential specifications
None     == 0       \* Python None / SQL NULL for a key

\* ------------------------------------------------------------ strings
\* The slugs saved by the callers: a slug, and the same slug followed by a
\* character of the slug alphabet that sorts before ':'.
Slugs == { <<"a">>, <<"a", "-">> }

\* The segments of the locators handed to select_from_url: the slugs and a
\* segment that is no slug of any row.
UrlSegs == Slugs \cup { <<"b">> }

\* The code point of a character (ASCII).
Code(c) ==
    CASE c = "-" -> 45
      [] c = "/" -> 47
      [] c = ":" -> 58
      [] c = "a" -> 97
      [] c = "b" -> 98

DELIMETER == <<":", ":">>

\* s.startswith(pre)
StartsWith(s, pre) ==
    /\ Len(pre) <= Len(s)
    /\ SubSeq(s, 1, Len(pre)) = pre

\* sep.join(items)
RECURSIVE Join(_, _)
Join(sep, items) ==
    IF items = <<>> THEN <<>>
    ELSE IF Len(items) = 1 THEN items[1]
    ELSE items[1] \o sep \o Join(sep, Tail(items))

\* s.split(sep): scan left to right, cutting at every occurrence of sep.
RECURSIVE SplitFrom(_, _, _)
SplitFrom(s, sep, cur) ==
    IF s = <<>> THEN << cur >>
    ELSE IF StartsWith(s, sep)
         THEN << cur >> \o SplitFrom(SubSeq(s, Len(sep) + 1, Len(s)), sep, <<>>)
         ELSE SplitFrom(Tail(s), sep, Append(cur, Head(s)))

Split(s, sep) == SplitFrom(s, sep, <<>>)

\* s.count(sep): the number of non-overlapping occurrences, left to right.
RECURSIVE Count(_, _)
Count(s, sep) ==
    IF Len(s) < Len(sep) THEN 0
    ELSE IF StartsWith(s, sep)
         THEN 1 + Count(SubSeq(s, Len(sep) + 1, Len(s)), sep)
         ELSE Count(Tail(s), sep)

\* s < t in the code-point order of strings (ORDER BY path).
RECURSIVE StrLess(_, _)
StrLess(s, t) ==
    IF t = <<>> THEN FALSE
    ELSE IF s = <<>> THEN TRUE
    ELSE IF Head(s) = Head(t) THEN StrLess(Tail(s), Tail(t))
    ELSE Code(Head(s)) < Code(Head(t))

\* ------------------------------------------------------------ state
VARIABLES
    store,     \* the table: primary key -> [slug, parent, path]
    stack,     \* per caller: the frames of the save() calls in progress
    result,    \* per caller: outcome of the last top-level save()
    op,        \* per caller: the last top-level save() as it was called, the
               \* path attribute of the instance it was called on, and
               \* whether another caller's save was running when it started
    pre,       \* per caller: the table when that save() was called
    log,       \* per caller: the rows written by that save(), in order
    partial,   \* some save() raised after it had written a row
    faults,    \* storage failures injected so far
    query      \* the last read operation and what it returned

vars == << store, stack, result, op, pre, log, partial, faults, query >>

Ids  == 1 .. MaxNodes
Live == DOMAIN store

NoOp    == [kind |-> "none", pk |-> None, slug |-> <<>>, parent |-> None,
            path |-> <<>>, overlap |-> FALSE]
NoQuery == [kind |-> "none"]

Row(slug, parent, path) == [slug |-> slug, parent |-> parent, path |-> path]

\* An instance of the model class: the row plus its primary key.
Obj(pk, slug, parent, path) ==
    [pk |-> pk, slug |-> slug, parent |-> parent, path |-> path]

Load(st, pk) == Obj(pk, st[pk].slug, st[pk].parent, st[pk].path)

Idle(p) == stack[p] = <<>>

\* ------------------------------------------------------------ manager
\* Mutant of SelectLoop: ObjectDoesNotExist is not caught.
SelectLoop_Uncaught(st, items, extras, limit) ==
    IF items = <<>> \/ limit = 0
    THEN [category |-> None, extras |-> extras, lookups |-> 0, raised |-> FALSE]
    ELSE LET path == Join(DELIMETER, items)
             hit  == { i \in DOMAIN st : st[i].path = path }
         IN  IF Cardinality(hit) = 1
             THEN [category |-> CHOOSE i \in hit : TRUE, extras |-> extras,
                   lookups |-> 1, raised |-> FALSE]
             ELSE [category |-> None, extras |-> extras,
                   lookups |-> 1, raised |-> TRUE]

\* Lines 35-44: the loop of select_from_url.  get(path=path) finds the one
\* row with this path, raises ObjectDoesNotExist when there is none, which
\* the loop catches, and MultipleObjectsReturned when there are several,
\* which nothing catches.  `lookups` counts the calls of get().
RECURSIVE SelectLoop(_, _, _, _)
SelectLoop(st, items, extras, limit) ==
    IF items = <<>> \/ limit = 0
    THEN [category |-> None, extras |-> extras, lookups |-> 0, raised |-> FALSE]
    ELSE LET path == Join(DELIMETER, items)
             hit  == { i \in DOMAIN st : st[i].path = path }
         IN  IF Cardinality(hit) > 1
             THEN [category |-> None, extras |-> extras,
                   lookups |-> 1, raised |-> TRUE]
             ELSE IF hit # {}
             THEN [category |-> CHOOSE i \in hit : TRUE, extras |-> extras,
                   lookups |-> 1, raised |-> FALSE]
             ELSE LET r == SelectLoop(st, SubSeq(items, 1, Len(items) - 1),
                                      << items[Len(items)] >> \o extras,
                                      limit - 1)
                  IN  [r EXCEPT !.lookups = @ + 1]

\* Mutants of SelectFromUrl: the limit is bumped even when it is -1; the
\* limit is not bumped at all.
SelectFromUrl_AlwaysBump(st, url, limit) ==
    SelectLoop(st, Split(url, << "/" >>), <<>>, limit + 1)

SelectFromUrl_NoBump(st, url, limit) ==
    SelectLoop(st, Split(url, << "/" >>), <<>>, limit)

\* Lines 31-34.
SelectFromUrl(st, url, limit) ==
    SelectLoop(st, Split(url, << "/" >>), <<>>,
               IF limit # -1 THEN limit + 1 ELSE limit)

\* Mutant of Depth: the number of segments of the path (1-based).
Depth_Segments(path) == Len(Split(path, DELIMETER))

\* Line 104: the depth property.
Depth(path) == Count(path, DELIMETER)

\* Line 57: qs.order_by('path').
RECURSIVE OrderByPath(_, _)
OrderByPath(st, qs) ==
    IF qs = {} THEN <<>>
    ELSE LET m == CHOOSE i \in qs :
                     \A j \in qs \ {i} : ~StrLess(st[j].path, st[i].path)
         IN  << m >> \o OrderByPath(st, qs \ {m})

\* Lines 63-64: wind back from `previous` to a node no deeper than `depth`.
RECURSIVE WindBack(_, _, _, _)
WindBack(st, parent, previous, depth) ==
    IF previous = None THEN None
    ELSE IF Depth(st[previous].path) > depth
         THEN WindBack(st, parent, parent[previous], depth)
         ELSE previous

\* Lines 61-72: one turn of the loop of build_tree_structure.  t.parent is
\* each node's parent attribute (the stored parent until the loop assigns
\* it), t.error an AttributeError raised on a None.
BuildNode(st, t, node) ==
    LET depth == Depth(st[node].path)
        prev  == WindBack(st, t.parent, t.previous, depth)
        par   == IF prev = None THEN None
                 ELSE IF Depth(st[prev].path) = depth THEN t.parent[prev]
                 ELSE prev
    IN  IF t.error THEN t
        ELSE IF depth = 0
        THEN [t EXCEPT !.ret = Append(@, node),
                       !.children_list[node] = <<>>,
                       !.previous = node]
        ELSE IF par = None THEN [t EXCEPT !.error = TRUE]
        ELSE [t EXCEPT !.parent[node] = par,
                       !.children_list[node] = <<>>,
                       !.children_list[par] = Append(@, node),
                       !.previous = node]

RECURSIVE BuildLoop(_, _, _)
BuildLoop(st, t, nodes) ==
    IF nodes = <<>> THEN t
    ELSE BuildLoop(st, BuildNode(st, t, Head(nodes)), Tail(nodes))

\* Lines 55-73.
BuildTreeStructure(st, qs) ==
    BuildLoop(st,
              [ret |-> <<>>,
               parent |-> [i \in qs |-> st[i].parent],
               children_list |-> [i \in qs |-> <<>>],
               previous |-> None,
               error |-> FALSE],
              OrderByPath(st, qs))

\* Mutant of AllChildren: the prefix lacks the delimiter (as on line 189).
AllChildren_NoDelimiter(st, obj) ==
    { i \in DOMAIN st : i # obj.pk /\ StartsWith(st[i].path, obj.path) }

\* Line 125: all_children().
AllChildren(st, obj) ==
    { i \in DOMAIN st : StartsWith(st[i].path, obj.path \o DELIMETER) }

\* Line 119: subtree().
Subtree(st, obj) == { i \in DOMAIN st : i = obj.pk } \cup AllChildren(st, obj)

\* The paths branch() looks up: the first 1, 2, ... segments of the path,
\* joined again (lines 132-135).
PathPrefixes(path) ==
    LET segs == Split(path, DELIMETER)
    IN  { Join(DELIMETER, SubSeq(segs, 1, k)) : k \in 1 .. Len(segs) }

\* Line 136: order_by('-path').
RECURSIVE OrderByPathDesc(_, _)
OrderByPathDesc(st, qs) ==
    IF qs = {} THEN <<>>
    ELSE LET m == CHOOSE i \in qs :
                     \A j \in qs \ {i} : ~StrLess(st[i].path, st[j].path)
         IN  << m >> \o OrderByPathDesc(st, qs \ {m})

\* Mutant of Branch: the rows come in ascending order of path.
Branch_Ascending(st, obj) ==
    OrderByPath(st, { i \in DOMAIN st : st[i].path \in PathPrefixes(obj.path) })

\* Lines 127-136: branch().
Branch(st, obj) ==
    OrderByPathDesc(st, { i \in DOMAIN st : st[i].path \in PathPrefixes(obj.path) })

\* seq without the entries equal to pk: exclude(pk=...).
Exclude(seq, pk) == SelectSeq(seq, LAMBDA i : i # pk)

\* queryset.reverse()
Reverse(seq) == [k \in 1 .. Len(seq) |-> seq[Len(seq) + 1 - k]]

\* Line 148: travel_up().
TravelUp(st, obj) == Exclude(Branch(st, obj), obj.pk)

\* Line 142: parents().
Parents(st, obj) == Reverse(TravelUp(st, obj))

\* ------------------------------------------------------------ save()
\* Lines 163-171: the walk up the parent chain.  `parents` is the set of
\* keys seen so far, p the key of the next parent to visit.
RECURSIVE WalkFrom(_, _, _, _)
WalkFrom(st, p, parents, path) ==
    IF p = None THEN [circular |-> FALSE, path |-> path]
    ELSE IF p \in parents THEN [circular |-> TRUE, path |-> path]
    ELSE WalkFrom(st, st[p].parent, parents \cup {p},
                  st[p].slug \o DELIMETER \o path)

\* Mutants of Walk: only the parent's slug is prepended; the set of seen
\* keys does not start with the instance's own key; the assertion is off.
Walk_OneLevel(st, obj) ==
    [circular |-> WalkFrom(st, obj.parent, {obj.pk}, obj.slug).circular,
     path     |-> IF obj.parent = None THEN obj.slug
                  ELSE st[obj.parent].slug \o DELIMETER \o obj.slug]

Walk_Unseeded(st, obj) == WalkFrom(st, obj.parent, {}, obj.slug)

Walk_NoAssert(st, obj) ==
    [circular |-> FALSE,
     path     |-> WalkFrom(st, obj.parent, {obj.pk}, obj.slug).path]

Walk(st, obj) == WalkFrom(st, obj.parent, {obj.pk}, obj.slug)

\* AutoField: the key given to an inserted row.
NewPk(st) == CHOOSE i \in Ids \ DOMAIN st : \A j \in Ids \ DOMAIN st : i <= j

\* Mutant of PathTaken: the column has no unique constraint.
PathTaken_Never(st, obj) == FALSE

\* unique=True on path (line 89): another row already holds this path.
PathTaken(st, obj) ==
    \E i \in DOMAIN st : i # obj.pk /\ st[i].path = obj.path

\* Mutant of Written: the write of a stored row leaves its path column.
Written_KeepsPath(st, obj) ==
    LET pk == IF obj.pk = None THEN NewPk(st) ELSE obj.pk
    IN  [pk |-> pk,
         st |-> [i \in DOMAIN st \cup {pk} |->
                   IF i = pk
                   THEN Row(obj.slug, obj.parent,
                            IF pk \in DOMAIN st THEN st[pk].path ELSE obj.path)
                   ELSE st[i]]]

\* Mutant of Written: the write of a row rewrites the paths of its children
\* as well.
Written_WithChildren(st, obj) ==
    LET pk == IF obj.pk = None THEN NewPk(st) ELSE obj.pk
    IN  [pk |-> pk,
         st |-> [i \in DOMAIN st \cup {pk} |->
                   IF i = pk THEN Row(obj.slug, obj.parent, obj.path)
                   ELSE IF st[i].parent = pk
                   THEN [st[i] EXCEPT !.path = obj.path \o DELIMETER \o st[i].slug]
                   ELSE st[i]]]

\* Line 172: the row as super().save() stores it.
Written(st, obj) ==
    LET pk == IF obj.pk = None THEN NewPk(st) ELSE obj.pk
    IN  [pk |-> pk,
         st |-> [i \in DOMAIN st \cup {pk} |->
                   IF i = pk THEN Row(obj.slug, obj.parent, obj.path)
                   ELSE st[i]]]

\* Mutant of Children: the cascade finds no child.
Children_None(st, pk) == {}

\* Mutant of Children: the cascade is handed every row below the node.
Children_AllBelow(st, pk) ==
    { Load(st, i) : i \in AllChildren(st, Load(st, pk)) }

\* Line 174: self.children.all(), the rows whose parent is this key.
Children(st, pk) == { Load(st, i) : i \in { j \in DOMAIN st : st[j].parent = pk } }

\* Line 178: update_path assigns the child's path before it calls save().
UpdatePath(c, path_so_far) ==
    [c EXCEPT !.path = path_so_far \o DELIMETER \o c.slug]

Frame(obj, pc, todo) == [obj |-> obj, pc |-> pc, todo |-> todo]

Top(p)  == stack[p][Len(stack[p])]
Rest(p) == SubSeq(stack[p], 1, Len(stack[p]) - 1)
SetTop(p, f) == [stack EXCEPT ![p] = Append(Rest(p), f)]

\* Mutant of Raise: the rows written by the failed save are taken back.
Raise_Rollback(p, err) ==
    /\ store'   = pre[p]
    /\ stack'   = [stack EXCEPT ![p] = <<>>]
    /\ result'  = [result EXCEPT ![p] = err]
    /\ partial' = partial

\* An exception leaves every frame of the caller; nothing catches it and
\* nothing written is taken back.
Raise(p, err) ==
    /\ store'   = store
    /\ stack'   = [stack EXCEPT ![p] = <<>>]
    /\ result'  = [result EXCEPT ![p] = err]
    /\ partial' = (partial \/ log[p] # <<>>)

\* A caller starts a top-level save(): of a new instance, or of a stored one
\* whose slug and parent it may have changed.
Begin(p, pk, slug, parent) ==
    /\ Idle(p)
    /\ result[p] = "none"
    /\ query = NoQuery
    /\ pk \in Live \cup {None}
    /\ pk = None => Live # Ids
    /\ parent \in Live \cup {None}
    /\ LET path == IF pk = None THEN <<>> ELSE store[pk].path
       IN  stack' = [stack EXCEPT ![p] =
                        << Frame(Obj(pk, slug, parent, path), "walk", {}) >>]
    /\ result' = [result EXCEPT ![p] = "running"]
    /\ op'     = [op EXCEPT ![p] =
                    [kind |-> IF pk = None THEN "create" ELSE "update",
                     pk |-> pk, slug |-> slug, parent |-> parent,
                     path |-> IF pk = None THEN <<>> ELSE store[pk].path,
                     overlap |-> \E q \in Procs \ {p} : ~Idle(q)]]
    /\ pre'    = [pre EXCEPT ![p] = store]
    /\ log'    = [log EXCEPT ![p] = <<>>]
    /\ UNCHANGED << store, partial, faults, query >>

\* Lines 163-171.
WalkStep(p) ==
    /\ ~Idle(p)
    /\ Top(p).pc = "walk"
    /\ LET f == Top(p)
           w == Walk(store, f.obj)
       IN  IF w.circular
           THEN /\ Raise(p, "AssertionError")
                /\ UNCHANGED << op, pre, log, faults, query >>
           ELSE /\ stack' = SetTop(p, [f EXCEPT !.obj.path = w.path, !.pc = "write"])
                /\ op' = IF Len(stack[p]) = 1
                         THEN [op EXCEPT ![p].path = w.path] ELSE op
                /\ UNCHANGED << store, result, pre, log, partial, faults, query >>

\* Line 172.  An insert needs a free key (the table holds MaxNodes rows).
WriteStep(p) ==
    /\ ~Idle(p)
    /\ Top(p).pc = "write"
    /\ Top(p).obj.pk = None => Live # Ids
    /\ LET f == Top(p)
           w == Written(store, f.obj)
       IN  IF PathTaken(store, f.obj)
           THEN /\ Raise(p, "IntegrityError")
                /\ UNCHANGED << op, pre, log, faults, query >>
           ELSE /\ store' = w.st
                /\ stack' = SetTop(p, [f EXCEPT !.obj.pk = w.pk, !.pc = "kids"])
                /\ log'   = [log EXCEPT ![p] =
                               Append(@, [pk |-> w.pk, path |-> f.obj.path])]
                /\ UNCHANGED << result, op, pre, partial, faults, query >>

\* Line 172, when the storage fails the write.
WriteFail(p) ==
    /\ ~Idle(p)
    /\ Top(p).pc = "write"
    /\ faults < MaxFaults
    /\ faults' = faults + 1
    /\ Raise(p, "StorageError")
    /\ UNCHANGED << op, pre, log, query >>

\* Line 174: the queryset is evaluated when the loop starts.
KidsStep(p) ==
    /\ ~Idle(p)
    /\ Top(p).pc = "kids"
    /\ stack' = SetTop(p, [Top(p) EXCEPT !.todo = Children(store, Top(p).obj.pk),
                                         !.pc = "loop"])
    /\ UNCHANGED << store, result, op, pre, log, partial, faults, query >>

\* Lines 174-175: the next child, in the order the storage returns them.
CallChild(p) ==
    /\ ~Idle(p)
    /\ Top(p).pc = "loop"
    /\ \E c \in Top(p).todo :
          stack' = [stack EXCEPT ![p] =
                      Append(Append(Rest(p), [Top(p) EXCEPT !.todo = @ \ {c}]),
                             Frame(UpdatePath(c, Top(p).obj.path), "walk", {}))]
    /\ UNCHANGED << store, result, op, pre, log, partial, faults, query >>

\* The loop is exhausted: this save() returns.
Return(p) ==
    /\ ~Idle(p)
    /\ Top(p).pc = "loop"
    /\ Top(p).todo = {}
    /\ stack'  = [stack EXCEPT ![p] = Rest(p)]
    /\ result' = [result EXCEPT ![p] = IF Len(stack[p]) = 1 THEN "ok" ELSE @]
    /\ UNCHANGED << store, op, pre, log, partial, faults, query >>

\* ------------------------------------------------------------ reads
\* An operation starts when the outcome of the one before has been taken:
\* op, pre, log and result describe a save from its call until then, `query`
\* a read and its answer.  Settle drops them; it changes nothing of the
\* program's state.
Settled ==
    /\ \A p \in Procs : Idle(p) /\ result[p] = "none"
    /\ query = NoQuery

Settle ==
    /\ \A p \in Procs : Idle(p)
    /\ ~Settled
    /\ query'  = NoQuery
    /\ result' = [p \in Procs |-> "none"]
    /\ op'     = [p \in Procs |-> NoOp]
    /\ pre'    = [p \in Procs |-> << >>]
    /\ log'    = [p \in Procs |-> <<>>]
    /\ UNCHANGED << store, stack, partial, faults >>

\* A read runs between two saves.
Ask(q) ==
    /\ Settled
    /\ query' = q
    /\ UNCHANGED << store, stack, result, op, pre, log, partial, faults >>

\* The locators: 1..MaxSegs segments joined by '/'.
Locators == UNION { [1 .. n -> UrlSegs] : n \in 1 .. MaxSegs }

AskSelect(segs, limit) ==
    LET url == Join(<< "/" >>, segs)
        r   == SelectFromUrl(store, url, limit)
    IN  Ask([kind |-> "select", segs |-> segs, url |-> url, limit |-> limit,
             category |-> r.category, extras |-> r.extras,
             lookups |-> r.lookups, raised |-> r.raised])

AskTree(qs) ==
    LET t == BuildTreeStructure(store, qs)
    IN  Ask([kind |-> "tree", qs |-> qs, error |-> t.error, ret |-> t.ret,
             parent |-> t.parent, children_list |-> t.children_list])

AskSubtree(pk) ==
    /\ pk \in Live
    /\ Ask([kind |-> "subtree", pk |-> pk, nodes |-> Subtree(store, Load(store, pk))])

AskParents(pk) ==
    /\ pk \in Live
    /\ Ask([kind |-> "parents", pk |-> pk,
            travel_up |-> TravelUp(store, Load(store, pk)),
            parents   |-> Parents(store, Load(store, pk))])

Init ==
    /\ store   = << >>
    /\ stack   = [p \in Procs |-> <<>>]
    /\ result  = [p \in Procs |-> "none"]
    /\ op      = [p \in Procs |-> NoOp]
    /\ pre     = [p \in Procs |-> << >>]
    /\ log     = [p \in Procs |-> <<>>]
    /\ partial = FALSE
    /\ faults  = 0
    /\ query   = NoQuery

Reads ==
    \/ \E segs \in Locators, limit \in (0 - MaxBelow) .. MaxLimit :
          AskSelect(segs, limit)
    \/ \E qs \in SUBSET Live : AskTree(qs)
    \/ \E pk \in Ids : AskSubtree(pk)
    \/ \E pk \in Ids : AskParents(pk)

Saves ==
    \E p \in SeqProcs :
        \/ \E pk \in Ids \cup {None}, slug \in Slugs, parent \in Ids \cup {None} :
              Begin(p, pk, slug, parent)
        \/ WalkStep(p)
        \/ WriteStep(p)
        \/ WriteFail(p)
        \/ KidsStep(p)
        \/ CallChild(p)
        \/ Return(p)

\* The saves alone.
Next == Saves \/ Settle

Spec == Init /\ [][Next]_vars

\* A save() is one synchronous call: once started it runs on, statement
\* after statement, until it returns or raises.
Step(p) ==
    \/ WalkStep(p)
    \/ WriteStep(p)
    \/ WriteFail(p)
    \/ KidsStep(p)
    \/ CallChild(p)
    \/ Return(p)

FairSpec == Spec /\ \A p \in SeqProcs : WF_vars(Step(p))

\* The table with the given slugs and parents, and the paths that the saves
\* which built it have stored (lines 163-171).
TableOf(sl, pa) ==
    LET raw == [i \in DOMAIN sl |-> Row(sl[i], pa[i], <<>>)]
    IN  [i \in DOMAIN sl |->
            Row(sl[i], pa[i], Walk(raw, Obj(i, sl[i], pa[i], <<>>)).path)]

\* The tables of up to MaxRaceNodes rows that saves run one after the other
\* leave: no circular parent, no path stored twice.
RaceTables ==
    { st \in UNION { { TableOf(sl, pa) : sl \in [1 .. k -> Slugs],
                                         pa \in [1 .. k -> 0 .. k] }
                     : k \in 0 .. MaxRaceNodes } :
        /\ \A i \in DOMAIN st : ~Walk(st, Load(st, i)).circular
        /\ \A i, j \in DOMAIN st : st[i].path = st[j].path => i = j }

\* Two callers, each in its own thread or process with its own instances:
\* their saves share nothing but the table, and every statement group of one
\* may come between two of the other.  Each caller runs one save, on a table
\* left by earlier saves; the storage is taken to be reliable.
ConcInit ==
    /\ store \in RaceTables
    /\ stack   = [p \in Procs |-> <<>>]
    /\ result  = [p \in Procs |-> "none"]
    /\ op      = [p \in Procs |-> NoOp]
    /\ pre     = [p \in Procs |-> << >>]
    /\ log     = [p \in Procs |-> <<>>]
    /\ partial = FALSE
    /\ faults  = 0
    /\ query   = NoQuery

ConcNext ==
    \E p \in Procs :
        \/ \E pk \in Ids \cup {None}, slug \in Slugs, parent \in Ids \cup {None} :
              Begin(p, pk, slug, parent)
        \/ WalkStep(p)
        \/ WriteStep(p)
        \/ KidsStep(p)
        \/ CallChild(p)
        \/ Return(p)

ConcSpec == ConcInit /\ [][ConcNext]_vars

\* The saves and, between them, the reads.
ReadNext == Saves \/ Reads \/ Settle

ReadSpec == Init /\ [][ReadNext]_vars

\* ------------------------------------------------------------ vocabulary
\* I1 and I2 of the data model, for one row and for the table.
PathOk(st, i) ==
    IF st[i].parent = None
    THEN st[i].path = st[i].slug
    ELSE /\ st[i].parent \in DOMAIN st
         /\ st[i].path = st[st[i].parent].path \o DELIMETER \o st[i].slug

I1I2(st) == \A i \in DOMAIN st : PathOk(st, i)

\* The keys met by following parent links from key p on.
RECURSIVE AncestorsFrom(_, _, _)
AncestorsFrom(st, p, seen) ==
    IF p = None \/ p \in seen \/ p \notin DOMAIN st THEN seen
    ELSE AncestorsFrom(st, st[p].parent, seen \cup {p})

Ancestors(st, i)   == AncestorsFrom(st, st[i].parent, {})
Descendants(st, n) == { i \in DOMAIN st : n \in Ancestors(st, i) }

AllIdle  == \A p \in Procs : Idle(p)
Finished(p) == result[p] \notin {"none", "running"}

\* ------------------------------------------------------------ claims

\* C1: when no save is in progress and no save has raised after writing a
\* row (every save so far returned, or was rejected before its first write),
\* every stored root has path = slug and every other stored node has
\* path = parent.path + '::' + slug.
C1_PathsFollowParents == (AllIdle /\ ~partial) => I1I2(store)

\* C1 witness: a save of a stored node returned after rewriting the node, a
\* child and a grandchild, and the node's path changed.
C1_Witness ==
    /\ result[1] = "ok" /\ ~partial
    /\ op[1].kind = "update"
    /\ Len(log[1]) = 3
    /\ store[op[1].pk].path # pre[1][op[1].pk].path
    /\ \E i \in Live : Cardinality(Ancestors(store, i)) = 2

\* C2: a save of a stored node N whose parent was set to N or to a descendant
\* of N ends with the assertion error, has written no row, leaves the table
\* and the path attribute of N as they were; when the parent is N itself the
\* walk fails at its first step, before it prepends any slug.
C2_CircularRejected ==
    \A p \in Procs :
        LET o == op[p]
        IN  ( /\ Finished(p)
              /\ o.kind = "update"
              /\ o.parent \in {o.pk} \cup Descendants(pre[p], o.pk) )
            => /\ result[p] = "AssertionError"
               /\ log[p] = <<>>
               /\ store = pre[p]
               /\ o.path = pre[p][o.pk].path
               /\ o.parent = o.pk =>
                     Walk(pre[p], Obj(o.pk, o.slug, o.parent, o.path)).path = o.slug

\* C2 witness: a save was rejected whose new parent was a grandchild of the
\* node, and its slug was changed as well.
C2_Witness ==
    /\ result[1] = "AssertionError"
    /\ op[1].parent \in Descendants(pre[1], op[1].pk)
    /\ pre[1][op[1].parent].parent # op[1].pk
    /\ op[1].slug # pre[1][op[1].pk].slug

\* C3: in every state, also in the middle of a save and after a rejected
\* one, every stored parent is a stored node and no node is among its own
\* ancestors.
C3_Acyclic ==
    \A i \in Live :
        /\ store[i].parent \in Live \cup {None}
        /\ i \notin Ancestors(store, i)

\* C3 witness: a chain of three nodes is stored, and a save that would have
\* made the root a child of its own child was rejected.
C3_Witness ==
    /\ result[1] = "AssertionError"
    /\ \E i \in Live : Cardinality(Ancestors(store, i)) = 2
    /\ op[1].parent # op[1].pk
    /\ store[op[1].parent].parent = op[1].pk

\* The save of caller p was a reparenting to a parent P that returned.
Reparented(p) ==
    /\ result[p] = "ok"
    /\ op[p].kind = "update"
    /\ op[p].parent # None
    /\ op[p].parent # pre[p][op[p].pk].parent

\* What C4 promises of the subtree of X under its new parent P.
SubtreeUnder(X, P) ==
    \A n \in {X} \cup Descendants(store, X) :
        /\ StartsWith(store[n].path,
                      store[P].path \o DELIMETER \o store[X].slug)
        /\ store[n].path =
              store[store[n].parent].path \o DELIMETER \o store[n].slug

\* C4 as stated: after any reparenting that returned, every node of the
\* subtree of X has a path that starts with P.path + '::' + X.slug and
\* equals its parent's stored path + '::' + its slug.
C4_AsStated ==
    \A p \in Procs : Reparented(p) => SubtreeUnder(op[p].pk, op[p].parent)

\* I1 and I2 hold of node i and of every ancestor of i.
ChainOk(st, i) == \A j \in {i} \cup Ancestors(st, i) : PathOk(st, j)

\* C4 amended: the same, when the stored paths of P and of P's ancestors
\* satisfied I1 and I2 when the save was called.
C4_ReparentedSubtree ==
    \A p \in Procs :
        (Reparented(p) /\ ChainOk(pre[p], op[p].parent))
        => SubtreeUnder(op[p].pk, op[p].parent)

\* C4 witness: a node with a child was moved under another root and the
\* save returned.
C4_Witness ==
    /\ Reparented(1)
    /\ ChainOk(pre[1], op[1].parent)
    /\ pre[1][op[1].pk].parent = None
    /\ Descendants(store, op[1].pk) # {}
    /\ Len(log[1]) = 2

WriteErrors == {"StorageError", "IntegrityError"}

\* The path of the last write of key i recorded in lg.
LastWritten(lg, i) ==
    LET ks == { k \in 1 .. Len(lg) : lg[k].pk = i }
    IN  lg[CHOOSE k \in ks : \A j \in ks : j <= k].path

\* C9: when a write fails, the save is over at once (no frame is left to
\* write anything more), every row written before the failure holds the
\* path that was written, and every other row is as it was.
C9_NoRollback ==
    \A p \in Procs :
        result[p] \in WriteErrors =>
            /\ Idle(p)
            /\ \A i \in Live :
                 IF \E k \in 1 .. Len(log[p]) : log[p][k].pk = i
                 THEN store[i].path = LastWritten(log[p], i)
                 ELSE i \in DOMAIN pre[p] /\ store[i] = pre[p][i]

\* C9 witness: the write of a grandchild failed after the node and its child
\* were rewritten with changed paths.
C9_Witness ==
    /\ result[1] = "StorageError"
    /\ Len(log[1]) = 2
    /\ \A k \in 1 .. 2 : store[log[1][k].pk].path # pre[1][log[1][k].pk].path
    /\ \E i \in Live : ~PathOk(store, i)

\* A path without its last segment.
BasePath(path) ==
    LET segs == Split(path, DELIMETER)
    IN  Join(DELIMETER, SubSeq(segs, 1, Len(segs) - 1))

\* The keys of qs whose path is the path of n without its last segment.
PathParents(st, qs, n) == { m \in qs : st[m].path = BasePath(st[n].path) }

\* How often n occurs in the sequence seq.
Occurrences(seq, n) == Cardinality({ k \in 1 .. Len(seq) : seq[k] = n })

\* C5: on a set of nodes that satisfies I1 and I2 and holds the ancestors of
\* each of its nodes, build_tree_structure raises nothing, returns exactly
\* the nodes of depth 0, each once, and gives every other node the parent
\* whose path is the node's path without its last segment, the node being
\* once in that parent's children_list and in no other.
C5_TreeMatchesPaths ==
    ( /\ query.kind = "tree"
      /\ I1I2(store)
      /\ \A i \in query.qs : Ancestors(store, i) \subseteq query.qs )
    => /\ ~query.error
       /\ \A i \in query.qs :
            Occurrences(query.ret, i) =
                IF Depth(store[i].path) = 0 THEN 1 ELSE 0
       /\ \A n \in query.qs :
            Depth(store[n].path) > 0 =>
               /\ PathParents(store, query.qs, n) = { query.parent[n] }
               /\ \A m \in query.qs :
                    Occurrences(query.children_list[m], n) =
                        IF m = query.parent[n] THEN 1 ELSE 0

\* The first k segments of the locator of the last select_from_url are the
\* path of a stored node.
StoredPrefix(k) ==
    \E i \in Live : store[i].path = Join(DELIMETER, SubSeq(query.segs, 1, k))

\* C6: with limit -1, select_from_url returns the node whose path is the
\* longest leading run of one or more segments that is a stored path, and
\* the segments after that run in their order; it returns no node only when
\* no leading run is a stored path, and then every segment is left over.
C6_LongestPrefix ==
    (query.kind = "select" /\ query.limit = -1) =>
        LET n  == Len(query.segs)
            ks == { k \in 1 .. n : StoredPrefix(k) }
        IN  IF ks = {}
            THEN query.category = None /\ query.extras = query.segs
            ELSE LET k == CHOOSE x \in ks : \A y \in ks : y <= x
                 IN  /\ query.category \in Live
                     /\ store[query.category].path =
                           Join(DELIMETER, SubSeq(query.segs, 1, k))
                     /\ query.extras = SubSeq(query.segs, k + 1, n)

\* C6 witness: of three segments the first and the first two are stored
\* paths, the three are not, and the node of the first two was returned.
C6_Witness ==
    /\ query.kind = "select" /\ query.limit = -1
    /\ Len(query.segs) = 3
    /\ StoredPrefix(1) /\ StoredPrefix(2) /\ ~StoredPrefix(3)
    /\ query.category # None
    /\ Len(query.extras) = 1

\* C7: with a limit k >= 0, select_from_url returns a node exactly when the
\* locator less at most k of its last segments is a stored path, and a
\* returned node comes with at most k left-over segments, the segments
\* before them being its path; with k = 0 only the whole locator can match.
C7_LimitBoundsLeftovers ==
    (query.kind = "select" /\ query.limit >= 0) =>
        LET n == Len(query.segs)
        IN  /\ query.category # None <=>
                  \E j \in 0 .. query.limit : j <= n /\ StoredPrefix(n - j)
            /\ query.category # None =>
                  /\ Len(query.extras) <= query.limit
                  /\ store[query.category].path =
                        Join(DELIMETER,
                             SubSeq(query.segs, 1, n - Len(query.extras)))

\* C7 witness: with limit 1 and three segments, the first segment alone is a
\* stored path, which would need two left-over segments, and no node was
\* returned.
C7_Witness ==
    /\ query.kind = "select" /\ query.limit = 1
    /\ Len(query.segs) = 3
    /\ StoredPrefix(1) /\ ~StoredPrefix(2) /\ ~StoredPrefix(3)
    /\ query.category = None

\* C8: when select_from_url returns no node, the left-over segments it
\* returns are all the segments of the locator, in their order.
C8_NoMatchReturnsAll ==
    (query.kind = "select" /\ query.category = None) =>
        query.extras = query.segs

\* C10: in a state that satisfies I1 and I2, subtree(node) is the node and
\* the nodes from which parent links lead to it, and nothing else.
C10_SubtreeIsDescendants ==
    (query.kind = "subtree" /\ I1I2(store)) =>
        query.nodes = {query.pk} \cup Descendants(store, query.pk)

\* C10 witness: the node has a descendant, and another stored path starts
\* with the node's path as a string without being below it.
C10_Witness ==
    /\ query.kind = "subtree" /\ I1I2(store)
    /\ Descendants(store, query.pk) # {}
    /\ \E i \in Live \ query.nodes :
          StartsWith(store[i].path, store[query.pk].path)

\* C11: in a state that satisfies I1 and I2, travel_up(node) lists the
\* proper ancestors of the node, each once: first its parent, then each
\* one's parent, up to a root; parents(node) lists the same nodes from the
\* root down; and the slugs of parents(node) followed by the node's slug are
\* the node's path split at '::'.
C11_AncestorChain ==
    (query.kind = "parents" /\ I1I2(store)) =>
        LET n  == query.pk
            up == query.travel_up
            ps == query.parents
        IN  /\ { up[k] : k \in 1 .. Len(up) } = Ancestors(store, n)
            /\ Len(up) = Cardinality(Ancestors(store, n))
            /\ n \notin { up[k] : k \in 1 .. Len(up) }
            /\ \A k \in 1 .. Len(up) :
                  up[k] = IF k = 1 THEN store[n].parent
                          ELSE store[up[k - 1]].parent
            /\ Len(ps) = Len(up)
            /\ \A k \in 1 .. Len(ps) : ps[k] = up[Len(up) + 1 - k]
            /\ [k \in 1 .. Len(ps) |-> store[ps[k]].slug] \o << store[n].slug >>
                  = Split(store[n].path, DELIMETER)

\* C11 witness: the node asked about has a parent and a grandparent, whose
\* slugs differ.
C11_Witness ==
    /\ query.kind = "parents" /\ I1I2(store)
    /\ Len(query.travel_up) = 2
    /\ store[query.travel_up[1]].slug # store[query.travel_up[2]].slug

\* C12: when no save is in progress and every save so far completed (it
\* returned, or was rejected before its first write), the depth of every
\* stored node is the number of its proper ancestors by parent links, and
\* it is 0 for the roots and for no other node.
C12_DepthCountsAncestors ==
    (AllIdle /\ ~partial) =>
        \A i \in Live :
            /\ Depth(Load(store, i).path) = Cardinality(Ancestors(store, i))
            /\ Depth(Load(store, i).path) = 0 <=> store[i].parent = None

\* C12 witness: a save returned that moved a node with a child from the top
\* level under another node, so that the depth of both grew by one.
C12_Witness ==
    /\ AllIdle /\ ~partial
    /\ Reparented(1)
    /\ pre[1][op[1].pk].parent = None
    /\ \E c \in Live :
          /\ store[c].parent = op[1].pk
          /\ Depth(pre[1][c].path) = 1
          /\ Depth(store[c].path) = 2

\* In the sequence seq of keys, every node comes after each of its ancestors.
ParentsFirst(st, seq) ==
    \A i, j \in 1 .. Len(seq) :
        seq[i] \in Ancestors(st, seq[j]) => i < j

\* In the sequence seq of keys, no node outside the subtree of n stands
\* between two nodes of that subtree.
Contiguous(st, seq, n) ==
    LET sub == {n} \cup Descendants(st, n)
    IN  \A i, j, k \in 1 .. Len(seq) :
            (i < k /\ k < j /\ seq[i] \in sub /\ seq[j] \in sub)
            => seq[k] \in sub

\* C13: when the stored paths satisfy I1 and I2, the nodes in ascending
\* order of path come every parent before all of its descendants, and the
\* subtree of every node is an unbroken run of that order.
C13_SortGroupsSubtrees ==
    I1I2(store) =>
        LET seq == OrderByPath(store, Live)
        IN  /\ ParentsFirst(store, seq)
            /\ \A n \in Live : Contiguous(store, seq, n)

\* The first half of C13 alone.
C13_SortParentsFirst ==
    I1I2(store) => ParentsFirst(store, OrderByPath(store, Live))

\* The keys written so far by the save of caller p.
WrittenBy(p) == { log[p][k].pk : k \in 1 .. Len(log[p]) }

\* What a reader finds of node n while the save of caller p runs: the path
\* of n is the one it had before the save and no longer fits its parent,
\* whose path the save has already rewritten.
StaleUnderNewParent(p, n) ==
    LET q == store[n].parent
    IN  /\ n \in DOMAIN pre[p]
        /\ q \in WrittenBy(p) \cap DOMAIN pre[p]
        /\ store[q].path # pre[p][q].path
        /\ store[n].path = pre[p][n].path
        /\ store[n].path # store[q].path \o DELIMETER \o store[n].slug

\* C14 as stated: in no state of a running save is a stored node stale under
\* a parent whose path has already been rewritten.
C14_AsStated ==
    \A p \in Procs :
        result[p] = "running" =>
            \A n \in Live : ~StaleUnderNewParent(p, n)

\* C14 amended: in every state of a save that started from a table that
\* satisfied I1 and I2, every node the save has written fits its parent
\* (I1, I2), and a node that does not is a descendant of the saved node that
\* the cascade has not written yet.
C14_WrittenNodesFit ==
    \A p \in Procs :
        (result[p] = "running" /\ I1I2(pre[p])) =>
            \A n \in Live :
                \/ PathOk(store, n)
                \/ /\ n \notin WrittenBy(p)
                   /\ log[p] # <<>>
                   /\ n \in Descendants(store, log[p][1].pk)

\* C14 witness: the saved node and its child are rewritten with changed
\* paths, and the grandchild, not yet written, is stale under the child.
C14_Witness ==
    /\ result[1] = "running" /\ I1I2(pre[1])
    /\ Len(log[1]) = 2
    /\ \E n \in Live \ WrittenBy(1) :
          /\ store[n].parent = log[1][2].pk
          /\ StaleUnderNewParent(1, n)

\* The save of caller p raised at a write after it had written the saved
\* node, from a table that satisfied I1 and I2.
FailedPartway(p) ==
    /\ result[p] \in WriteErrors
    /\ log[p] # <<>>
    /\ I1I2(pre[p])

\* C15 as stated: after a cascade has failed partway, every child of the
\* saved node holds its parent's stored path + '::' + its slug.
C15_AsStated ==
    \A p \in Procs :
        FailedPartway(p) =>
            \A c \in Live : store[c].parent = log[p][1].pk => PathOk(store, c)

\* C15 amended: after a cascade has failed partway, the nodes written before
\* the failure fit their parents, every other row is as it was, and the
\* nodes that do not fit their parent are descendants of the saved node that
\* the depth-first cascade had not written: the node whose write failed,
\* which may be a child of the saved node, among them.
C15_FailedCascade ==
    \A p \in Procs :
        FailedPartway(p) =>
            \A n \in Live :
                IF n \in WrittenBy(p) THEN PathOk(store, n)
                ELSE /\ n \in DOMAIN pre[p] /\ store[n] = pre[p][n]
                     /\ ~PathOk(store, n) =>
                           n \in Descendants(store, log[p][1].pk)

\* C15 witness: the write of a child of the saved node failed, and the
\* child and its own child are stale.
C15_Witness ==
    /\ FailedPartway(1)
    /\ Len(log[1]) = 1
    /\ \E c, g \in Live :
          /\ store[c].parent = log[1][1].pk
          /\ store[g].parent = c
          /\ ~PathOk(store, c)
          /\ store[g].path = pre[1][g].path

\* The keys written by the save of caller p, in the order of the writes.
WriteOrder(p) == [k \in 1 .. Len(log[p]) |-> log[p][k].pk]

\* The save of caller p wrote the saved node first, then exactly the nodes
\* below it, each once, every node after its parent and the subtree of
\* every node in one unbroken run (depth first).
SubtreeWrittenOnce(p) ==
    LET X   == log[p][1].pk
        sub == {X} \cup Descendants(store, X)
    IN  /\ log[p] # <<>>
        /\ op[p].kind = "update" => X = op[p].pk
        /\ WrittenBy(p) = sub
        /\ Len(log[p]) = Cardinality(sub)
        /\ ParentsFirst(store, WriteOrder(p))
        /\ \A n \in sub : Contiguous(store, WriteOrder(p), n)

\* C16: a save that has started ends (it returns or raises), and a save that
\* returned has written exactly the nodes of the subtree of the saved node,
\* each once and none else, depth first and every node before its
\* descendants.
C16_CascadeWritesSubtreeOnce ==
    /\ \A p \in SeqProcs : (result[p] = "running") ~> (result[p] # "running")
    /\ [](\A p \in Procs : result[p] = "ok" => SubtreeWrittenOnce(p))

\* C16 witness: a save returned that wrote a node, its child and its
\* grandchild.
C16_Witness ==
    /\ result[1] = "ok"
    /\ Len(log[1]) = 3
    /\ store[log[1][3].pk].parent = log[1][2].pk
    /\ store[log[1][2].pk].parent = log[1][1].pk

\* The paths after one bulk rewrite of the table st: the path of X becomes
\* new, and in every path that starts with old + '::' the leading old is
\* replaced by new; every other path stays.
BulkRewrite(st, X, old, new) ==
    [i \in DOMAIN st |->
        IF i = X THEN new
        ELSE IF StartsWith(st[i].path, old \o DELIMETER)
        THEN new \o SubSeq(st[i].path, Len(old) + 1, Len(st[i].path))
        ELSE st[i].path]

\* The save of caller p was a rename or a reparenting of a stored node that
\* returned.
Moved(p) ==
    /\ result[p] = "ok"
    /\ op[p].kind = "update"
    /\ \/ op[p].slug # pre[p][op[p].pk].slug
       \/ op[p].parent # pre[p][op[p].pk].parent

\* C17: after a rename or reparenting of X that returned, from a table that
\* satisfied I1 and I2, every stored path is the one a single bulk rewrite
\* of the old path of X to its new path would have produced.
C17_CascadeEqualsBulkRewrite ==
    \A p \in Procs :
        (Moved(p) /\ I1I2(pre[p])) =>
            LET X == op[p].pk
            IN  /\ DOMAIN store = DOMAIN pre[p]
                /\ \A i \in Live :
                      store[i].path =
                          BulkRewrite(pre[p], X, pre[p][X].path, store[X].path)[i]

\* C17 witness: a node with a child and a grandchild was renamed, and the
\* paths of the three changed.
C17_Witness ==
    /\ Moved(1) /\ I1I2(pre[1])
    /\ Len(log[1]) = 3
    /\ \A i \in Live : store[i].path # pre[1][i].path
    /\ \E i \in Live : Cardinality(Ancestors(store, i)) = 2

\* Node n mixes generations: its path is not its parent's stored path,
\* '::' and its slug.
Mixed(st, n) ==
    /\ st[n].parent \in DOMAIN st
    /\ st[n].path # st[st[n].parent].path \o DELIMETER \o st[n].slug

\* C18: two renames or reparentings by two callers, on overlapping subtrees
\* and with nothing but the single writes atomic, can both return and leave
\* a node whose path mixes generations (the witness); and whenever the
\* saves of two callers are over and a stored path does not fit I1 and I2,
\* one of the saves started while the other was running.
C18_MixedOnlyWhenInterleaved ==
    (AllIdle /\ \A p \in Procs : ~op[p].overlap) => I1I2(store)

\* C18 witness: both callers renamed or reparented a node, one of the two
\* nodes was in the subtree of the other, both saves returned, and a node
\* mixes generations.
C18_Witness ==
    /\ AllIdle
    /\ Moved(1) /\ Moved(2)
    /\ op[2].overlap
    /\ op[2].pk \in {op[1].pk} \cup Descendants(pre[1], op[1].pk)
    /\ \E n \in Live : Mixed(store, n)

\* I5: no two rows of the table hold the same path.
UniquePaths(st) == \A i, j \in DOMAIN st : st[i].path = st[j].path => i = j

\* C19: in every state no two stored rows hold the same path; and a save
\* that started from a table that satisfied I1 and I2 (and I5) and ended
\* with the uniqueness error failed at the write of the saved node itself:
\* it wrote no row, of the node or in a cascade, and the table is as it was.
C19_DuplicateFailsAtSavedNode ==
    /\ UniquePaths(store)
    /\ \A p \in Procs :
          (result[p] = "IntegrityError" /\ I1I2(pre[p]) /\ UniquePaths(pre[p]))
          => /\ log[p] = <<>>
             /\ store = pre[p]

\* C19 witness: a node with a child was renamed to the slug of another root
\* and the save ended with the uniqueness error.
C19_Witness ==
    /\ result[1] = "IntegrityError"
    /\ I1I2(pre[1]) /\ UniquePaths(pre[1])
    /\ op[1].kind = "update"
    /\ op[1].slug # pre[1][op[1].pk].slug
    /\ Descendants(pre[1], op[1].pk) # {}

\* C20: whatever the locator and the limit, below -1 included,
\* select_from_url ends after at most one lookup per segment of the locator
\* and raises nothing; when it finds no node it returns None and, as the
\* left-over segments, the segments it has tried and dropped: as many of the
\* last segments of the locator as it made lookups, in their order.
C20_SelectEndsWithoutRaising ==
    query.kind = "select" =>
        LET n == Len(query.segs)
        IN  /\ query.lookups <= n
            /\ ~query.raised
            /\ query.category = None =>
                  /\ Len(query.extras) = query.lookups
                  /\ query.extras = SubSeq(query.segs, n - query.lookups + 1, n)

\* C20 witness: with a limit below -1 and three segments none of whose
\* leading runs is a stored path, while rows are stored, three lookups were
\* made and no node was returned.
C20_Witness ==
    /\ query.kind = "select" /\ query.limit < -1
    /\ Len(query.segs) = 3
    /\ Live # {}
    /\ query.lookups = 3
    /\ query.category = None /\ ~query.raised
====
